---- MODULE Spec2Model ----
(***************************************************************************)
(* Voyage AI Tutor.  The per-connection session orchestrator of            *)
(* server/index.js (utterance assembly, upstream dialogue sessions,        *)
(* tool-call interception, vision delegation and text-to-speech), the      *)
(* capture worklet with its voice-activity detection, and the popup's      *)
(* playback queue and sample conversions, each as a state machine with a   *)
(* specification of its own.  On the server one connection is modelled;    *)
(* every await of the code is a point where other callbacks of the same    *)
(* connection may run.                                                     *)
(***************************************************************************)
EXTENDS Integers, Sequences, FiniteSets, TLC

\* ------------------------------------------------------------------ bounds
MaxInputs == 4        \* client messages plus dialogue-session messages
MaxInFlightInputs == 2  \* messages followed in a run that starts mid-turn
MaxTtsAudio == 1      \* inline-audio parts emitted by one TTS session
MaxVadEvents == 6     \* frames and port messages given to the VAD
SilenceFrames == 2    \* processorOptions.silenceFrames of the short runs
MaxChunks == 3        \* audio messages the popup receives from the server
MaxBufferLen == 2     \* samples in a buffer given to the codec
MaxSamples == 12      \* samples in a payload given to the resampler
MaxTime == 4          \* ticks of the audio clock that are followed
MaxScheduled == 3     \* chunks given to the scheduling playback
MaxDuration == 2      \* longest chunk, in ticks of the audio clock

VARIABLES
    inputs,               \* client and dialogue-session messages so far
    audioCount,           \* audio messages received so far
    imageCount,           \* image messages received so far
    malformedCount,       \* malformed messages received so far
    closed,               \* the client connection has closed
    turnAudioBuffer,      \* base64 chunks of the utterance being assembled
    turnImage,            \* pending screenshot (0 = null)
    currentAudioSession,  \* handle of the dialogue session (0 = null)
    turns,                \* one end_of_utterance handler activation per turn
    sessions,             \* the upstream dialogue session of each turn
    handlers,             \* deferred handleAudioModelResponse activations
    speaks,               \* speakText activations with their TTS session
    outbox,               \* messages sent to the client, in order
    inputBudget           \* the number of messages a run is followed for

\* The capture worklet (AudioCaptureProcessor) of the client.
VARIABLES
    isSpeaking,             \* this.isSpeaking
    isPaused,               \* this.isPaused
    silentFrameCount,       \* this.silentFrameCount
    requiredSilenceFrames,  \* this.requiredSilenceFrames
    vadInput,               \* what feeds the worklet: "free" or "example"
    port                    \* each frame or port message with what it posted

vadVars == <<isSpeaking, isPaused, silentFrameCount, requiredSilenceFrames,
             vadInput, port>>

\* The popup (Popup.tsx): playback of the audio the server sends.
VARIABLES
    audioQueue,             \* audioQueueRef.current
    isPlaying,              \* isPlayingRef.current
    isTutorSpeaking,        \* React state
    isAiCurrentlySpeaking,  \* React state
    isUserSpeaking,         \* React state
    sources,                \* the buffer sources started, in start order
    arrived,                \* audio messages received from the server
    barge                   \* the barge-ins so far (for the claims)

playbackVars == <<audioQueue, isPlaying, isTutorSpeaking,
                  isAiCurrentlySpeaking, isUserSpeaking, sources, arrived,
                  barge>>

\* The sample conversions of the popup.
VARIABLES
    pcmData,                \* the 16-bit samples given to the codec
    float32Data,            \* the samples as convertPCMToFloat32 returns them
    encoded,                \* the samples as the audioData branch encodes them
    resample                \* one call of the resampling convertPCMToFloat32

codecVars == <<pcmData, float32Data, encoded, resample>>

\* The popup version that schedules playback on the audio clock.
VARIABLES
    wsOpen,                 \* recording: the WebSocket to the server is open
    currentTime,            \* audioContext.currentTime, in ticks
    nextPlayTime,           \* nextPlayTimeRef.current
    scheduled               \* the sources started, with their start times

schedVars == <<wsOpen, currentTime, nextPlayTime, scheduled>>

vars == <<inputs, audioCount, imageCount, malformedCount, closed,
          turnAudioBuffer, turnImage, currentAudioSession, turns, sessions,
          handlers, speaks, outbox, inputBudget>>

\* ------------------------------------------------------------ base64 text
\* A base64 text is a sequence of digits 0..63 and the padding mark PadChar.
PadChar == 64

RECURSIVE btoa(_)
btoa(b) ==
    IF Len(b) = 0 THEN <<>>
    ELSE IF Len(b) = 1 THEN
        <<b[1] \div 4, (b[1] % 4) * 16, PadChar, PadChar>>
    ELSE IF Len(b) = 2 THEN
        <<b[1] \div 4, (b[1] % 4) * 16 + (b[2] \div 16), (b[2] % 16) * 4, PadChar>>
    ELSE
        <<b[1] \div 4, (b[1] % 4) * 16 + (b[2] \div 16),
          (b[2] % 16) * 4 + (b[3] \div 64), b[3] % 64>>
        \o btoa(SubSeq(b, 4, Len(b)))

\* Buffer.from(text, 'base64'): decoding stops at the first padding mark.
RECURSIVE BufferFromBase64(_)
BufferFromBase64(s) ==
    IF Len(s) < 2 \/ s[1] = PadChar \/ s[2] = PadChar THEN <<>>
    ELSE IF Len(s) = 2 \/ s[3] = PadChar THEN
        <<s[1] * 4 + (s[2] \div 16)>>
    ELSE IF Len(s) = 3 \/ s[4] = PadChar THEN
        <<s[1] * 4 + (s[2] \div 16), (s[2] % 16) * 16 + (s[3] \div 4)>>
    ELSE
        <<s[1] * 4 + (s[2] \div 16), (s[2] % 16) * 16 + (s[3] \div 4),
          (s[3] % 4) * 64 + s[4]>>
        \o BufferFromBase64(SubSeq(s, 5, Len(s)))

\* Buffer.concat of the decoded chunks of a buffer of base64 payloads.
RECURSIVE BufferConcat(_)
BufferConcat(buf) ==
    IF Len(buf) = 0 THEN <<>>
    ELSE BufferFromBase64(buf[1].payload) \o BufferConcat(Tail(buf))

\* The bytes of the n-th audio chunk a client sends: chunks of 1, 2, 3, 1, ...
\* bytes, so that base64 texts with two, one and no padding marks all occur.
ChunkBytes(n) == [i \in 1..(((n - 1) % 3) + 1) |-> (83 * n + 57 * i) % 256]

\* turnAudioBuffer.join(''): text concatenation of the buffered payloads.
RECURSIVE JoinChunks(_)
JoinChunks(buf) ==
    IF Len(buf) = 0 THEN <<>>
    ELSE buf[1].payload \o JoinChunks(Tail(buf))

\* ------------------------------------------------------------ data shapes
NullSession == 0
NullImage == 0

Keywords == {"timeout", "quota", "rate", "model"}

\* The keywords found in the message of an error thrown by the upstream SDK.
ErrorWords == SUBSET Keywords

\* A slip in the order of the tests: 'model' is looked for before 'quota'.
ErrorMessageMutant(words) ==
    IF "timeout" \in words THEN "msg_timeout"
    ELSE IF "model" \in words THEN "msg_model"
    ELSE IF "quota" \in words \/ "rate" \in words THEN "msg_busy"
    ELSE "msg_generic"

\* The spoken error message chosen from the words of error.message.
ErrorMessage(words) ==
    IF "timeout" \in words THEN "msg_timeout"
    ELSE IF "quota" \in words \/ "rate" \in words THEN "msg_busy"
    ELSE IF "model" \in words THEN "msg_model"
    ELSE "msg_generic"

\* The first part of a dialogue-model message, by what the handler can tell
\* apart: no parts, inline audio, text on which the try block throws (text
\* that JSON.parse rejects, or the JSON text null), JSON text without the
\* tool_use value, and the tool-call request.
PartKinds == {"none", "audio", "text_plain", "text_json_other", "tool_call"}

\* The parts of a message after the first: none, or an inline-audio part.
RestKinds == {"none", "audio"}

\* The messages an upstream dialogue session emits.  A text part on which the
\* handler returns early is taken without turnComplete (the flag is then
\* never read), and a message with neither parts nor turnComplete is left out.
\* A later inline-audio part is taken after a first part that is text and
\* no tool-call request.
Responses ==
    {r \in [part : PartKinds, rest : RestKinds, turnComplete : BOOLEAN] :
        /\ r.part = "none" => r.turnComplete
        /\ r.part \in {"text_plain", "tool_call"} => ~r.turnComplete
        /\ r.rest = "audio" => r.part \in {"text_plain", "text_json_other"}}

TextKinds == {"text_plain", "text_json_other", "tool_call"}

\* JSON.parse(part.text) followed by the read of toolCall.tool_use throws.
ParseThrows(part) == part = "text_plain"

\* toolCall.tool_use === 'get_screenshot_analysis'
IsToolCall(part) == part = "tool_call"

\* A slip in the test of the pending image: an image is always assumed.
NoImageMutant(img) == FALSE

\* !turnImage
NoImage(img) == img = NullImage

\* A slip in the guard of end_of_utterance: the empty buffer is let through.
EmptyUtteranceMutant(buf) == FALSE

\* turnAudioBuffer.length === 0
EmptyUtterance(buf) == Len(buf) = 0

\* const combinedAudioData = turnAudioBuffer.join('')
CombinedAudioData(buf) == JoinChunks(buf)

\* A slip after the join: the buffer is left as it is.
ClearedBufferMutant(buf) == buf

\* turnAudioBuffer = []
ClearedBuffer(buf) == <<>>

\* What a client may send: the three message types the handler knows, a JSON
\* object with another type, a JSON object without a type, and text that is
\* not JSON.
ClientMessages ==
    {"audio", "image", "end_of_utterance", "type_other", "type_missing",
     "unparseable"}

\* The message is not one of the protocol's inbound messages.
Malformed(m) == m \in {"type_other", "type_missing", "unparseable"}

\* A slip in the dispatch: the last branch is taken for every other type.
DispatchMutant(m) ==
    IF m = "unparseable" THEN "catch"
    ELSE IF m = "image" THEN "image"
    ELSE IF m = "audio" THEN "audio"
    ELSE "end_of_utterance"

\* The branch of ws.on('message') a message takes: JSON.parse throws into
\* the outer catch, the three if-statements on data.type, or none of them.
Dispatch(m) ==
    IF m = "unparseable" THEN "catch"
    ELSE IF m = "image" THEN "image"
    ELSE IF m = "audio" THEN "audio"
    ELSE IF m = "end_of_utterance" THEN "end_of_utterance"
    ELSE "none"

\* ws.send(...): nothing reaches a client whose connection has closed.
WsSend(box, msg) == IF closed THEN box ELSE Append(box, msg)

\* The start of speakText(text, ws): genAI.live.connect is called.
NewSpeak(text, kind, id, turn) ==
    [text |-> text, caller |-> [kind |-> kind, id |-> id], turn |-> turn,
     pc |-> "connect", state |-> "connecting", sent |-> FALSE,
     naudio |-> 0, emitted |-> 0]

\* ------------------------------------------------------------------- Init
ServerInit ==
    /\ inputs = 0
    /\ audioCount = 0
    /\ imageCount = 0
    /\ malformedCount = 0
    /\ closed = FALSE
    /\ turnAudioBuffer = <<>>
    /\ turnImage = NullImage
    /\ currentAudioSession = NullSession
    /\ turns = <<>>
    /\ sessions = <<>>
    /\ handlers = <<>>
    /\ speaks = <<>>
    /\ outbox = <<>>
    /\ inputBudget = MaxInputs

\* -------------------------------------------------- ws.on('message', ...)
\* A message arrives and is parsed.
Received(m) ==
    /\ inputs' = inputs + 1
    /\ malformedCount' = malformedCount + (IF Malformed(m) THEN 1 ELSE 0)

\* {type: 'audio', payload}: the chunk is pushed on the buffer.
OnAudio ==
    /\ ~closed
    /\ inputs < inputBudget
    /\ \E m \in ClientMessages : Dispatch(m) = "audio" /\ Received(m)
    /\ turnAudioBuffer' = Append(turnAudioBuffer,
           [seq |-> audioCount + 1,
            payload |-> btoa(ChunkBytes(audioCount + 1))])
    /\ audioCount' = audioCount + 1
    /\ UNCHANGED <<imageCount, closed, turnImage, currentAudioSession, turns,
                   sessions, handlers, speaks, outbox>>

\* A slip in the image branch: a pending screenshot is kept.
OnImageMutant ==
    /\ ~closed
    /\ inputs < inputBudget
    /\ \E m \in ClientMessages : Dispatch(m) = "image" /\ Received(m)
    /\ imageCount' = imageCount + 1
    /\ turnImage' = IF NoImage(turnImage) THEN imageCount + 1 ELSE turnImage
    /\ UNCHANGED <<audioCount, closed, turnAudioBuffer, currentAudioSession,
                   turns, sessions, handlers, speaks, outbox>>

\* {type: 'image', payload}: the screenshot replaces the pending one.
OnImage ==
    /\ ~closed
    /\ inputs < inputBudget
    /\ \E m \in ClientMessages : Dispatch(m) = "image" /\ Received(m)
    /\ imageCount' = imageCount + 1
    /\ turnImage' = imageCount + 1
    /\ UNCHANGED <<audioCount, closed, turnAudioBuffer, currentAudioSession,
                   turns, sessions, handlers, speaks, outbox>>

\* {type: 'end_of_utterance'}: up to the await of the connection race.
OnEndOfUtterance ==
    /\ ~closed
    /\ inputs < inputBudget
    /\ \E m \in ClientMessages :
        Dispatch(m) = "end_of_utterance" /\ Received(m)
    /\ IF EmptyUtterance(turnAudioBuffer)
       THEN UNCHANGED <<turnAudioBuffer, turns, sessions>>
       ELSE /\ turns' = Append(turns,
                   [pc |-> "race",
                    data |-> CombinedAudioData(turnAudioBuffer),
                    chunks |-> turnAudioBuffer, thrown |-> <<>>,
                    pending |-> turnImage])
            /\ sessions' = Append(sessions,
                   [state |-> "connecting", audioIn |-> <<>>])
            /\ turnAudioBuffer' = ClearedBuffer(turnAudioBuffer)
    /\ UNCHANGED <<audioCount, imageCount, closed, turnImage,
                   currentAudioSession, handlers, speaks, outbox>>

\* Any other message: the outer catch logs the parse error, or no branch of
\* the handler matches data.type; the handler returns.
OnDropped ==
    /\ ~closed
    /\ inputs < inputBudget
    /\ \E m \in ClientMessages :
        Dispatch(m) \in {"catch", "none"} /\ Received(m)
    /\ UNCHANGED <<audioCount, imageCount, closed, turnAudioBuffer, turnImage,
                   currentAudioSession, turns, sessions, handlers, speaks,
                   outbox>>

\* ws.on('close'): the session the handle names is closed.
OnClose ==
    /\ ~closed
    /\ closed' = TRUE
    /\ IF currentAudioSession # NullSession
       THEN sessions' = [sessions EXCEPT
                ![currentAudioSession].state = "closed"]
       ELSE UNCHANGED sessions
    /\ currentAudioSession' = NullSession
    /\ UNCHANGED <<inputs, audioCount, imageCount, malformedCount,
                   turnAudioBuffer, turnImage, turns, handlers, speaks,
                   outbox>>

\* ------------------------------------- the end_of_utterance handler, cont.
\* A slip in the send: the utterance is submitted twice.
SendRealtimeInputMutant(sess, data) ==
    [sess EXCEPT !.audioIn = Append(Append(@, data), data)]

\* currentAudioSession.sendRealtimeInput({audio: {data, mimeType}})
SendRealtimeInput(sess, data) == [sess EXCEPT !.audioIn = Append(@, data)]

\* The catch block of the agentic flow: the error is spoken.
CatchAgentic(t, words) ==
    /\ turns' = [turns EXCEPT ![t].pc = "speak", ![t].thrown = <<words>>]
    /\ speaks' = Append(speaks, NewSpeak(ErrorMessage(words), "turn", t, t))

\* connectionPromise resolves.  While the race is pending the handler goes
\* on: the handle is assigned and the utterance is sent, which ends the
\* handler (the send itself is taken to succeed on a session just opened).
ConnectResolve(t) ==
    /\ sessions[t].state = "connecting"
    /\ IF turns[t].pc = "race"
       THEN /\ currentAudioSession' = t
            /\ sessions' = [sessions EXCEPT ![t] =
                   SendRealtimeInput([@ EXCEPT !.state = "open"],
                                     turns[t].data)]
            /\ turns' = [turns EXCEPT ![t].pc = "done"]
            /\ UNCHANGED speaks
       ELSE /\ sessions' = [sessions EXCEPT ![t].state = "open"]
            /\ UNCHANGED <<currentAudioSession, turns, speaks>>
    /\ UNCHANGED <<inputs, audioCount, imageCount, malformedCount, closed,
                   turnAudioBuffer, turnImage, handlers, outbox>>

\* connectionPromise rejects.
ConnectReject(t) ==
    /\ sessions[t].state = "connecting"
    /\ sessions' = [sessions EXCEPT ![t].state = "failed"]
    /\ IF turns[t].pc = "race"
       THEN \E words \in ErrorWords : CatchAgentic(t, words)
       ELSE UNCHANGED <<turns, speaks>>
    /\ UNCHANGED <<inputs, audioCount, imageCount, malformedCount, closed,
                   turnAudioBuffer, turnImage, currentAudioSession, handlers,
                   outbox>>

\* timeoutPromise rejects first ('Connection timeout after 10 seconds').
ConnectTimeout(t) ==
    /\ turns[t].pc = "race"
    /\ CatchAgentic(t, {"timeout"})
    /\ UNCHANGED <<inputs, audioCount, imageCount, malformedCount, closed,
                   turnAudioBuffer, turnImage, currentAudioSession, sessions,
                   handlers, outbox>>

\* ------------------------------------------- the upstream dialogue session
\* onmessage: the response is handed to a setImmediate callback.
UpstreamMessage(t) ==
    /\ sessions[t].state = "open"
    /\ inputs < inputBudget
    /\ inputs' = inputs + 1
    /\ \E resp \in Responses :
        handlers' = Append(handlers,
            [turn |-> t, resp |-> resp, pc |-> "queued", image |-> NullImage,
             seen |-> NullImage, vision |-> 0, vres |-> "none"])
    /\ UNCHANGED <<audioCount, imageCount, malformedCount, closed,
                   turnAudioBuffer, turnImage, currentAudioSession, turns,
                   sessions, speaks, outbox>>

\* ------------------------------------------------ handleAudioModelResponse
\* A slip in the forwarding: the audio is put ahead of what was sent before.
ForwardAudioMutant(box, h) ==
    IF handlers[h].resp.part = "audio" /\ ~closed
    THEN <<[type |-> "audio", turn |-> handlers[h].turn,
            via |-> "model", ref |-> h]>> \o box
    ELSE box

\* The tail of the function: the inline-audio part, then turnComplete.
ForwardAudio(box, h) ==
    IF handlers[h].resp.part = "audio"
    THEN WsSend(box, [type |-> "audio", turn |-> handlers[h].turn,
                      via |-> "model", ref |-> h])
    ELSE box

ForwardTurnComplete(box, h) ==
    IF handlers[h].resp.turnComplete
    THEN WsSend(box, [type |-> "turn_complete", turn |-> handlers[h].turn,
                      via |-> "model", ref |-> h])
    ELSE box

\* The setImmediate callback runs: handleAudioModelResponse(response, ws,
\* turnImage) up to its first await or to its end.
HandlerRun(h) ==
    /\ handlers[h].pc = "queued"
    /\ \A j \in 1..(h - 1) : handlers[j].pc # "queued"
    /\ LET part == handlers[h].resp.part
           run == [handlers[h] EXCEPT !.image = turnImage, !.seen = turnImage]
       IN
       IF part \in TextKinds /\ ParseThrows(part)
       THEN /\ handlers' = [handlers EXCEPT ![h] = [run EXCEPT !.pc = "speak"]]
            /\ speaks' = Append(speaks,
                   NewSpeak("model_text", "handler", h, run.turn))
            /\ UNCHANGED outbox
       ELSE IF part \in TextKinds /\ IsToolCall(part)
       THEN IF NoImage(run.image)
            THEN /\ handlers' = [handlers EXCEPT ![h] =
                        [run EXCEPT !.pc = "speak"]]
                 /\ speaks' = Append(speaks,
                        NewSpeak("msg_no_screenshot", "handler", h, run.turn))
                 /\ UNCHANGED outbox
            ELSE /\ handlers' = [handlers EXCEPT ![h] =
                        [run EXCEPT !.pc = "vision", !.vision = @ + 1]]
                 /\ UNCHANGED <<speaks, outbox>>
       ELSE /\ handlers' = [handlers EXCEPT ![h] = [run EXCEPT !.pc = "done"]]
            /\ outbox' = ForwardTurnComplete(ForwardAudio(outbox, h), h)
            /\ UNCHANGED speaks
    /\ UNCHANGED <<inputs, audioCount, imageCount, malformedCount, closed,
                   turnAudioBuffer, turnImage, currentAudioSession, turns,
                   sessions>>

\* visionModel.generateContent resolves: the analysis is spoken.
VisionResolve(h) ==
    /\ handlers[h].pc = "vision"
    /\ handlers' = [handlers EXCEPT ![h].pc = "speak_analysis",
                                    ![h].vres = "ok"]
    /\ speaks' = Append(speaks,
           NewSpeak("analysis", "handler", h, handlers[h].turn))
    /\ UNCHANGED <<inputs, audioCount, imageCount, malformedCount, closed,
                   turnAudioBuffer, turnImage, currentAudioSession, turns,
                   sessions, outbox>>

\* visionModel.generateContent rejects: the apology is spoken.
VisionReject(h) ==
    /\ handlers[h].pc = "vision"
    /\ handlers' = [handlers EXCEPT ![h].pc = "speak", ![h].vres = "fail"]
    /\ speaks' = Append(speaks,
           NewSpeak("msg_apology", "handler", h, handlers[h].turn))
    /\ UNCHANGED <<inputs, audioCount, imageCount, malformedCount, closed,
                   turnAudioBuffer, turnImage, currentAudioSession, turns,
                   sessions, outbox>>

\* The code after an awaited speakText in handleAudioModelResponse: on the
\* analysis path the parameter turnImage is set to null, then return.
AfterSpeak(hd) ==
    IF hd.pc = "speak_analysis"
    THEN [hd EXCEPT !.image = NullImage, !.pc = "done"]
    ELSE [hd EXCEPT !.pc = "done"]

\* -------------------------------------------------------------- speakText
\* A slip in speakText: the error is thrown on to the caller, which is left.
ReturnToCallerMutant(k) ==
    LET c == speaks[k].caller IN
    /\ turns' = IF c.kind = "turn"
                THEN [turns EXCEPT ![c.id].pc =
                         IF speaks'[k].sent THEN "done" ELSE "thrown"]
                ELSE turns
    /\ handlers' = IF c.kind = "handler"
                   THEN [handlers EXCEPT ![c.id] =
                            IF speaks'[k].sent THEN AfterSpeak(@)
                            ELSE [@ EXCEPT !.pc = "thrown"]]
                   ELSE handlers

\* speakText returns to the awaiting caller, which goes on in the same task.
ReturnToCaller(k) ==
    LET c == speaks[k].caller IN
    /\ turns' = IF c.kind = "turn"
                THEN [turns EXCEPT ![c.id].pc = "done"]
                ELSE turns
    /\ handlers' = IF c.kind = "handler"
                   THEN [handlers EXCEPT ![c.id] = AfterSpeak(@)]
                   ELSE handlers

\* genAI.live.connect of the TTS session resolves; polling starts.
TtsConnectResolve(k) ==
    /\ speaks[k].pc = "connect"
    /\ speaks' = [speaks EXCEPT ![k].pc = "poll"]
    /\ UNCHANGED <<inputs, audioCount, imageCount, malformedCount, closed,
                   turnAudioBuffer, turnImage, currentAudioSession, turns,
                   sessions, handlers, outbox>>

\* genAI.live.connect of the TTS session rejects: caught and logged.
TtsConnectReject(k) ==
    /\ speaks[k].pc = "connect"
    /\ speaks' = [speaks EXCEPT ![k].pc = "returned", ![k].state = "failed"]
    /\ ReturnToCaller(k)
    /\ UNCHANGED <<inputs, audioCount, imageCount, malformedCount, closed,
                   turnAudioBuffer, turnImage, currentAudioSession, sessions,
                   outbox>>

\* The TTS session leaves the connecting state.
TtsStateChange(k) ==
    /\ speaks[k].pc = "poll"
    /\ speaks[k].state = "connecting"
    /\ \E st \in {"open", "closed", "error"} :
        speaks' = [speaks EXCEPT ![k].state = st]
    /\ UNCHANGED <<inputs, audioCount, imageCount, malformedCount, closed,
                   turnAudioBuffer, turnImage, currentAudioSession, turns,
                   sessions, handlers, outbox>>

\* A tick of checkInterval that settles the promise: on 'open' the text is
\* sent (sendText resolves or rejects), on 'closed' or 'error' the wait
\* rejects; either way speakText returns.
TtsPoll(k) ==
    /\ speaks[k].pc = "poll"
    /\ \/ /\ speaks[k].state = "open"
          /\ \E ok \in BOOLEAN :
              speaks' = [speaks EXCEPT ![k].pc = "returned", ![k].sent = ok]
       \/ /\ speaks[k].state \in {"closed", "error"}
          /\ speaks' = [speaks EXCEPT ![k].pc = "returned"]
    /\ ReturnToCaller(k)
    /\ UNCHANGED <<inputs, audioCount, imageCount, malformedCount, closed,
                   turnAudioBuffer, turnImage, currentAudioSession, sessions,
                   outbox>>

\* onmessage of the TTS session: inline audio in the first part is
\* forwarded; on turnComplete turn_complete is sent and the TTS session is
\* closed.  The message has inline audio in its first part (audio), in a
\* later part (later), or in none.
TtsMessage(k) ==
    /\ speaks[k].state = "open"
    /\ speaks[k].sent
    /\ \E audio \in BOOLEAN, later \in BOOLEAN, tc \in BOOLEAN :
        /\ audio \/ later \/ tc
        /\ speaks[k].emitted + (IF audio THEN 1 ELSE 0)
               + (IF later THEN 1 ELSE 0) <= MaxTtsAudio
        /\ LET m == [turn |-> speaks[k].turn, via |-> "tts", ref |-> k]
               b1 == IF audio
                     THEN WsSend(outbox, [type |-> "audio"] @@ m)
                     ELSE outbox
               b2 == IF tc
                     THEN WsSend(b1, [type |-> "turn_complete"] @@ m)
                     ELSE b1
           IN
           /\ outbox' = b2
           /\ speaks' = [speaks EXCEPT
                  ![k].naudio = IF audio THEN @ + 1 ELSE @,
                  ![k].emitted = @ + (IF audio THEN 1 ELSE 0)
                                   + (IF later THEN 1 ELSE 0),
                  ![k].state = IF tc THEN "closed" ELSE @]
    /\ UNCHANGED <<inputs, audioCount, imageCount, malformedCount, closed,
                   turnAudioBuffer, turnImage, currentAudioSession, turns,
                   sessions, handlers>>

\* onerror of the open TTS session: ttsSession.close().
TtsError(k) ==
    /\ speaks[k].state = "open"
    /\ speaks[k].pc \in {"poll", "returned"}
    /\ speaks' = [speaks EXCEPT ![k].state = "closed"]
    /\ UNCHANGED <<inputs, audioCount, imageCount, malformedCount, closed,
                   turnAudioBuffer, turnImage, currentAudioSession, turns,
                   sessions, handlers, outbox>>

\* ================================================== AudioCaptureProcessor
\* RMS values are in thousandths; the threshold is 0.015.
SpeechThreshold == 15
DefaultSilenceFrames == 188

\* The frames the worklet is given: RMS at the threshold and just above it.
RmsLevels == {SpeechThreshold, SpeechThreshold + 1}

\* The input of the worked example: the first 100 frames are loud, the
\* frames after them are silent.
ExampleInput == [loud |-> 100, frames |-> 300]

\* options.processorOptions?.silenceFrames || 188
RequiredSilenceFrames(option) ==
    IF option = 0 THEN DefaultSilenceFrames ELSE option

\* A slip in the classification: a frame at the threshold counts as speech.
IsSpeechFrameMutant(rms) == rms >= SpeechThreshold

\* rms > this.speechThreshold
IsSpeechFrame(rms) == rms > SpeechThreshold

\* A slip in the end test: the utterance ends one silent frame late.
SilenceElapsedMutant(count, required) == count > required

\* this.silentFrameCount >= this.requiredSilenceFrames
SilenceElapsed(count, required) == count >= required

\* The state of a worklet just constructed.
VadConstructed(option) ==
    /\ isSpeaking = FALSE
    /\ isPaused = FALSE
    /\ silentFrameCount = 0
    /\ requiredSilenceFrames = RequiredSilenceFrames(option)
    /\ port = <<>>

\* One entry of the port log: the event, the state it met, what it posted.
PortEntry(event, rms, posted) ==
    [event |-> event, rms |-> rms, speaking |-> isSpeaking,
     paused |-> isPaused, posted |-> posted]

\* A slip in process: the frames of the silence hold-off are counted but
\* not forwarded.
ProcessHoldOffMutant(rms) ==
    IF isPaused \/ (~IsSpeechFrame(rms) /\ ~isSpeaking)
    THEN /\ port' = Append(port, PortEntry("frame", rms, <<>>))
         /\ UNCHANGED <<isSpeaking, silentFrameCount>>
    ELSE IF IsSpeechFrame(rms)
    THEN /\ silentFrameCount' = 0
         /\ isSpeaking' = TRUE
         /\ port' = Append(port, PortEntry("frame", rms,
                IF ~isSpeaking THEN <<"speechStart", "audioData">>
                ELSE <<"audioData">>))
    ELSE IF SilenceElapsed(silentFrameCount + 1, requiredSilenceFrames)
    THEN /\ isSpeaking' = FALSE
         /\ silentFrameCount' = 0
         /\ port' = Append(port, PortEntry("frame", rms, <<"speechEnd">>))
    ELSE /\ silentFrameCount' = silentFrameCount + 1
         /\ port' = Append(port, PortEntry("frame", rms, <<>>))
         /\ UNCHANGED isSpeaking

\* A slip in process: the pause is tested after the speech test, so a frame
\* above the threshold is classified although the worklet is paused.
ProcessMutant(rms) ==
    IF IsSpeechFrame(rms)
    THEN /\ silentFrameCount' = 0
         /\ isSpeaking' = TRUE
         /\ port' = Append(port, PortEntry("frame", rms,
                IF ~isSpeaking THEN <<"speechStart", "audioData">>
                ELSE <<"audioData">>))
    ELSE IF isPaused \/ ~isSpeaking
    THEN /\ port' = Append(port, PortEntry("frame", rms, <<>>))
         /\ UNCHANGED <<isSpeaking, silentFrameCount>>
    ELSE IF SilenceElapsed(silentFrameCount + 1, requiredSilenceFrames)
    THEN /\ isSpeaking' = FALSE
         /\ silentFrameCount' = 0
         /\ port' = Append(port, PortEntry("frame", rms,
                <<"audioData", "speechEnd">>))
    ELSE /\ silentFrameCount' = silentFrameCount + 1
         /\ port' = Append(port, PortEntry("frame", rms, <<"audioData">>))
         /\ UNCHANGED isSpeaking

\* process(inputs) on one frame of the given RMS.
Process(rms) ==
    IF isPaused
    THEN /\ port' = Append(port, PortEntry("frame", rms, <<>>))
         /\ UNCHANGED <<isSpeaking, silentFrameCount>>
    ELSE IF IsSpeechFrame(rms)
    THEN /\ silentFrameCount' = 0
         /\ isSpeaking' = TRUE
         /\ port' = Append(port, PortEntry("frame", rms,
                IF ~isSpeaking THEN <<"speechStart", "audioData">>
                ELSE <<"audioData">>))
    ELSE IF isSpeaking
    THEN IF SilenceElapsed(silentFrameCount + 1, requiredSilenceFrames)
         THEN /\ isSpeaking' = FALSE
              /\ silentFrameCount' = 0
              /\ port' = Append(port, PortEntry("frame", rms,
                     <<"audioData", "speechEnd">>))
         ELSE /\ silentFrameCount' = silentFrameCount + 1
              /\ port' = Append(port, PortEntry("frame", rms,
                     <<"audioData">>))
              /\ UNCHANGED isSpeaking
    ELSE /\ port' = Append(port, PortEntry("frame", rms, <<>>))
         /\ UNCHANGED <<isSpeaking, silentFrameCount>>

\* The audio thread calls process with the next frame.
VadFrame ==
    /\ vadInput = "free"
    /\ Len(port) < MaxVadEvents
    /\ \E rms \in RmsLevels : Process(rms)
    /\ UNCHANGED <<isPaused, requiredSilenceFrames, vadInput>>

\* The next frame of the worked example.
VadExampleFrame ==
    /\ vadInput = "example"
    /\ Len(port) < ExampleInput.frames
    /\ Process(IF Len(port) < ExampleInput.loud
               THEN SpeechThreshold + 1 ELSE SpeechThreshold)
    /\ UNCHANGED <<isPaused, requiredSilenceFrames, vadInput>>

\* port.onmessage with {type: 'pause'}
VadPause ==
    /\ vadInput = "free"
    /\ Len(port) < MaxVadEvents
    /\ isPaused' = TRUE
    /\ port' = Append(port, PortEntry("pause", 0, <<>>))
    /\ UNCHANGED <<isSpeaking, silentFrameCount, requiredSilenceFrames,
                   vadInput>>

\* port.onmessage with {type: 'resume'}
VadResume ==
    /\ vadInput = "free"
    /\ Len(port) < MaxVadEvents
    /\ isPaused' = FALSE
    /\ port' = Append(port, PortEntry("resume", 0, <<>>))
    /\ UNCHANGED <<isSpeaking, silentFrameCount, requiredSilenceFrames,
                   vadInput>>

\* A slip in forceEnd: speechEnd is posted whatever the state.
VadForceEndMutant ==
    /\ vadInput = "free"
    /\ Len(port) < MaxVadEvents
    /\ isSpeaking' = FALSE
    /\ silentFrameCount' = 0
    /\ port' = Append(port, PortEntry("forceEnd", 0, <<"speechEnd">>))
    /\ UNCHANGED <<isPaused, requiredSilenceFrames, vadInput>>

\* port.onmessage with {type: 'forceEnd'}
VadForceEnd ==
    /\ vadInput = "free"
    /\ Len(port) < MaxVadEvents
    /\ IF isSpeaking
       THEN /\ isSpeaking' = FALSE
            /\ silentFrameCount' = 0
            /\ port' = Append(port, PortEntry("forceEnd", 0, <<"speechEnd">>))
       ELSE /\ port' = Append(port, PortEntry("forceEnd", 0, <<>>))
            /\ UNCHANGED <<isSpeaking, silentFrameCount>>
    /\ UNCHANGED <<isPaused, requiredSilenceFrames, vadInput>>

\* ====================================================== Popup.tsx playback
\* The values of the React state the registered handlers see.  The handlers
\* are those of the render in which recording was started (they are assigned
\* once, in ws.onopen), so they keep reading that render's state, in which
\* nobody was speaking.
Captured ==
    [isTutorSpeaking |-> FALSE, isAiCurrentlySpeaking |-> FALSE,
     isUserSpeaking |-> FALSE]

NoBarge == [seen |-> FALSE, at |-> 0, queued |-> {}]

PlaybackInit ==
    /\ audioQueue = <<>>
    /\ isPlaying = FALSE
    /\ isTutorSpeaking = FALSE
    /\ isAiCurrentlySpeaking = FALSE
    /\ isUserSpeaking = FALSE
    /\ sources = <<>>
    /\ arrived = 0
    /\ barge = NoBarge

\* A slip in the dequeue: the newest chunk is taken instead of the oldest.
NextChunkMutant(q) == [chunk |-> q[Len(q)], rest |-> SubSeq(q, 1, Len(q) - 1)]

\* audioQueueRef.current.shift()
NextChunk(q) == [chunk |-> Head(q), rest |-> Tail(q)]

\* A slip at the end of the chain: the flags stay set on an empty queue.
ProcessPlaybackQueueMutant(q, src) ==
    IF Len(q) = 0
    THEN /\ UNCHANGED <<isPlaying, isTutorSpeaking, isAiCurrentlySpeaking>>
         /\ audioQueue' = q
         /\ sources' = src
    ELSE /\ isPlaying' = TRUE
         /\ isTutorSpeaking' = TRUE
         /\ isAiCurrentlySpeaking' = TRUE
         /\ audioQueue' = Tail(q)
         /\ sources' = Append(src, [chunk |-> Head(q), state |-> "playing"])

\* processPlaybackQueue() on the queue q with the sources src.
ProcessPlaybackQueue(q, src) ==
    IF Len(q) = 0
    THEN /\ isPlaying' = FALSE
         /\ isTutorSpeaking' = FALSE
         /\ isAiCurrentlySpeaking' = FALSE
         /\ audioQueue' = q
         /\ sources' = src
    ELSE /\ isPlaying' = TRUE
         /\ isTutorSpeaking' = TRUE
         /\ isAiCurrentlySpeaking' = TRUE
         /\ audioQueue' = NextChunk(q).rest
         /\ sources' = Append(src,
                [chunk |-> NextChunk(q).chunk, state |-> "playing"])

\* stopAllPlayback(): the queue is cleared and the flags are reset.
StopAllPlayback ==
    /\ audioQueue' = <<>>
    /\ isPlaying' = FALSE
    /\ isTutorSpeaking' = FALSE
    /\ isAiCurrentlySpeaking' = FALSE
    /\ UNCHANGED sources

\* handleAudioDataFromServer on {type: 'audio', payload}; the payload
\* converts to samples or convertPCMToFloat32 returns null.
OnServerAudio ==
    /\ arrived < MaxChunks
    /\ arrived' = arrived + 1
    /\ \E converts \in BOOLEAN :
        IF Captured.isUserSpeaking \/ ~converts
        THEN UNCHANGED <<audioQueue, isPlaying, isTutorSpeaking,
                         isAiCurrentlySpeaking, sources>>
        ELSE IF ~isPlaying
        THEN ProcessPlaybackQueue(Append(audioQueue, arrived + 1), sources)
        ELSE /\ audioQueue' = Append(audioQueue, arrived + 1)
             /\ UNCHANGED <<isPlaying, isTutorSpeaking,
                            isAiCurrentlySpeaking, sources>>
    /\ UNCHANGED <<isUserSpeaking, barge>>

\* source.onended of a source that was playing.
OnEnded(i) ==
    /\ sources[i].state = "playing"
    /\ ProcessPlaybackQueue(audioQueue,
           [sources EXCEPT ![i].state = "ended"])
    /\ UNCHANGED <<isUserSpeaking, arrived, barge>>

\* handleWorkletMessage on 'speechStart'.
OnSpeechStart ==
    /\ isUserSpeaking' = TRUE
    /\ IF Captured.isTutorSpeaking \/ Captured.isAiCurrentlySpeaking
       THEN StopAllPlayback
       ELSE UNCHANGED <<audioQueue, isPlaying, isTutorSpeaking,
                        isAiCurrentlySpeaking, sources>>
    /\ barge' = IF isPlaying
                THEN [seen |-> TRUE, at |-> arrived,
                      queued |-> barge.queued \cup
                          {audioQueue[j] : j \in 1..Len(audioQueue)}]
                ELSE barge
    /\ UNCHANGED arrived

\* handleWorkletMessage on 'speechEnd'.
OnSpeechEnd ==
    /\ isUserSpeaking
    /\ isUserSpeaking' = FALSE
    /\ UNCHANGED <<audioQueue, isPlaying, isTutorSpeaking,
                   isAiCurrentlySpeaking, sources, arrived, barge>>

\* forceResumeMicrophone(): the button shown while the tutor is speaking.
ForceResumeMicrophone ==
    /\ isTutorSpeaking \/ isAiCurrentlySpeaking
    /\ StopAllPlayback
    /\ isUserSpeaking' = FALSE
    /\ UNCHANGED <<arrived, barge>>

\* ======================================================= sample conversions
\* A sample value is held exactly, as a fraction num/den; the quotients and
\* products taken here are exact in the arithmetic of the code as well
\* (a 16-bit integer over 32768 fits a 32-bit float).
Int16Values == (-32768)..32767

Clamp16(v) == IF v < -32768 THEN -32768 ELSE IF v > 32767 THEN 32767 ELSE v

\* float32Data[i] = pcmData[i] / 32768.0
DecodeSample(x) == [num |-> x, den |-> 32768]

\* The samples that are no fraction have den = 0: Infinity is 1/0,
\* -Infinity is -1/0 and NaN is 0/0.  Math.floor, Math.min and Math.max
\* keep a NaN, which an Int16Array stores as 0; the infinities are clamped.
NonFinite(f) == IF f.num > 0 THEN 32767 ELSE IF f.num < 0 THEN -32768 ELSE 0

\* The value an Int16Array stores for an integer outside its range.
Wrap16(v) == ((v + 32768) % 65536) - 32768

\* A slip in the scale: 32767 is used for the way back.
EncodeSampleMutant(f) ==
    IF f.den = 0 THEN NonFinite(f) ELSE Clamp16((f.num * 32767) \div f.den)

\* A slip in the range: the scaled value is stored without the clamp.
EncodeSampleWrapMutant(f) ==
    IF f.den = 0 THEN 0 ELSE Wrap16((f.num * 32768) \div f.den)

\* Math.max(-32768, Math.min(32767, Math.floor(data[i] * 32768)))
EncodeSample(f) ==
    IF f.den = 0 THEN NonFinite(f) ELSE Clamp16((f.num * 32768) \div f.den)

\* Buffers given to the codec: every single sample, and pairs of the values
\* at the ends and in the middle of the range.
EdgeSamples == {-32768, -32767, -1, 0, 1, 32766, 32767}

CodecBuffers ==
    {<<x>> : x \in Int16Values}
    \cup UNION {[1..n -> EdgeSamples] : n \in 2..MaxBufferLen}

\* Samples the microphone can give: fractions around both ends of the range
\* and beyond it, and the values that are no fraction.
FloatSamples ==
    [num : (-3)..3, den : {0, 1, 2}]
    \cup [num : {-32770, -32769, -32768, -32767, 32767, 32768, 32769, 32770},
          den : {32768}]

FloatBuffers == UNION {[1..n -> FloatSamples] : n \in 1..MaxBufferLen}

NoCall == [numBytes |-> 0, targetSampleRate |-> 0, resampledLength |-> -1]

CodecIdle ==
    /\ pcmData = <<>>
    /\ float32Data = <<>>
    /\ encoded = <<>>
    /\ resample = NoCall

\* convertPCMToFloat32 of Popup.tsx on the samples of pcmData.
ConvertPCMToFloat32 ==
    /\ Len(pcmData) > 0
    /\ float32Data = <<>>
    /\ float32Data' = [i \in 1..Len(pcmData) |-> DecodeSample(pcmData[i])]
    /\ UNCHANGED <<pcmData, encoded, resample>>

\* The audioData branch of handleWorkletMessage on the samples of float32Data.
EncodeAudioData ==
    /\ Len(float32Data) > 0
    /\ encoded = <<>>
    /\ encoded' = [i \in 1..Len(float32Data) |-> EncodeSample(float32Data[i])]
    /\ UNCHANGED <<pcmData, float32Data, resample>>

\* The sample rate the model's audio arrives at.
SourceSampleRate == 24000

\* audioContextRef.current.sampleRate
TargetSampleRates == {8000, 16000, 22050, 24000, 44100, 48000, 96000}

\* A slip in the sample count: the byte count is taken for it.
ResampledLengthMutant(numBytes, targetSampleRate) ==
    (numBytes * targetSampleRate) \div SourceSampleRate

\* Math.floor(numSourceSamples * targetSampleRate / sourceSampleRate) with
\* numSourceSamples = bytes.length / 2
ResampledLength(numBytes, targetSampleRate) ==
    (numBytes * targetSampleRate) \div (2 * SourceSampleRate)

\* The resampling convertPCMToFloat32 on a payload of numBytes bytes.
Resample ==
    /\ resample.resampledLength = -1
    /\ resample.targetSampleRate # 0
    /\ resample' = [resample EXCEPT !.resampledLength =
           ResampledLength(resample.numBytes, resample.targetSampleRate)]
    /\ UNCHANGED <<pcmData, float32Data, encoded>>

\* ===================================================== scheduled playback
SchedulerIdle ==
    /\ wsOpen = FALSE
    /\ currentTime = 0
    /\ nextPlayTime = 0
    /\ scheduled = <<>>

\* Math.max(currentTime, nextPlayTimeRef.current)
PlayTime(now, next) == IF now > next THEN now ELSE next

\* playAudioBuffer(audioData) on a chunk of the given duration, called for
\* an audio message of the server: source.start(playTime) and the update of
\* nextPlayTimeRef.
PlayAudioBuffer(duration) ==
    /\ wsOpen
    /\ Len(scheduled) < MaxScheduled
    /\ LET playTime == PlayTime(currentTime, nextPlayTime) IN
       /\ scheduled' = Append(scheduled,
              [start |-> playTime, duration |-> duration,
               now |-> currentTime])
       /\ nextPlayTime' = playTime + duration
    /\ UNCHANGED <<wsOpen, currentTime>>

\* The audio clock advances.
ClockTick ==
    /\ currentTime < MaxTime
    /\ currentTime' = currentTime + 1
    /\ UNCHANGED <<wsOpen, nextPlayTime, scheduled>>

\* handleToggleRecording() while not recording: the WebSocket is opened.
StartRecording ==
    /\ ~wsOpen
    /\ wsOpen' = TRUE
    /\ UNCHANGED <<currentTime, nextPlayTime, scheduled>>

\* handleToggleRecording() while recording: the WebSocket is closed, the
\* queue is cleared and the timing is reset; no source is stopped.
StopRecording ==
    /\ wsOpen
    /\ wsOpen' = FALSE
    /\ nextPlayTime' = 0
    /\ UNCHANGED <<currentTime, scheduled>>

\* ------------------------------------------------------- specifications
clientVars == <<vadVars, playbackVars, codecVars, schedVars>>

\* What no step of the server changes.
frozenVars == <<inputBudget, clientVars>>

\* The worklet as the popup leaves it when no audio is captured.
VadIdle == VadConstructed(0) /\ vadInput = "free"

\* The server with a client that is not heard from.
Init ==
    ServerInit /\ VadIdle /\ PlaybackInit /\ CodecIdle /\ SchedulerIdle

\* ------------------------------------------------------------------- Next
Next ==
    \/ OnAudio /\ UNCHANGED frozenVars
    \/ OnImage /\ UNCHANGED frozenVars
    \/ OnEndOfUtterance /\ UNCHANGED frozenVars
    \/ OnDropped /\ UNCHANGED frozenVars
    \/ OnClose /\ UNCHANGED frozenVars
    \/ \E t \in 1..Len(turns) : ConnectResolve(t) /\ UNCHANGED frozenVars
    \/ \E t \in 1..Len(turns) : ConnectReject(t) /\ UNCHANGED frozenVars
    \/ \E t \in 1..Len(turns) : ConnectTimeout(t) /\ UNCHANGED frozenVars
    \/ \E t \in 1..Len(sessions) : UpstreamMessage(t) /\ UNCHANGED frozenVars
    \/ \E h \in 1..Len(handlers) : HandlerRun(h) /\ UNCHANGED frozenVars
    \/ \E h \in 1..Len(handlers) : VisionResolve(h) /\ UNCHANGED frozenVars
    \/ \E h \in 1..Len(handlers) : VisionReject(h) /\ UNCHANGED frozenVars
    \/ \E k \in 1..Len(speaks) : TtsConnectResolve(k) /\ UNCHANGED frozenVars
    \/ \E k \in 1..Len(speaks) : TtsConnectReject(k) /\ UNCHANGED frozenVars
    \/ \E k \in 1..Len(speaks) : TtsStateChange(k) /\ UNCHANGED frozenVars
    \/ \E k \in 1..Len(speaks) : TtsPoll(k) /\ UNCHANGED frozenVars
    \/ \E k \in 1..Len(speaks) : TtsMessage(k) /\ UNCHANGED frozenVars
    \/ \E k \in 1..Len(speaks) : TtsError(k) /\ UNCHANGED frozenVars

Spec == Init /\ [][Next]_vars

\* The steps the server's own event loop is bound to take: a setImmediate
\* callback runs, the 10 s timer fires while the race is pending, and the
\* 50 ms interval ticks.  What the upstream services do is left open.
FairHandlerRun(h) ==
    h <= Len(handlers) /\ HandlerRun(h) /\ UNCHANGED frozenVars
FairConnectTimeout(t) ==
    t <= Len(turns) /\ ConnectTimeout(t) /\ UNCHANGED frozenVars
FairTtsPoll(k) ==
    k <= Len(speaks) /\ TtsPoll(k) /\ UNCHANGED frozenVars

FairSpec ==
    /\ Spec
    /\ \A i \in 1..(2 * MaxInputs) :
        /\ WF_vars(FairHandlerRun(i))
        /\ WF_vars(FairConnectTimeout(i))
        /\ WF_vars(FairTtsPoll(i))

\* The server met with a turn in flight: a chunk and a screenshot have been
\* received and end_of_utterance has been handled; the connection race is
\* pending, or the dialogue session has been established and the utterance
\* submitted to it.
TurnInFlight(established) ==
    LET buf == <<[seq |-> 1, payload |-> btoa(ChunkBytes(1))]>>
        data == CombinedAudioData(buf)
    IN
    /\ inputs = 3
    /\ audioCount = 1
    /\ imageCount = 1
    /\ malformedCount = 0
    /\ closed = FALSE
    /\ turnAudioBuffer = ClearedBuffer(buf)
    /\ turnImage = 1
    /\ currentAudioSession = IF established THEN 1 ELSE NullSession
    /\ turns = <<[pc |-> IF established THEN "done" ELSE "race",
                  data |-> data, chunks |-> buf, thrown |-> <<>>,
                  pending |-> 1]>>
    /\ sessions =
           IF established
           THEN <<SendRealtimeInput(
                      [state |-> "open", audioIn |-> <<>>], data)>>
           ELSE <<[state |-> "connecting", audioIn |-> <<>>]>>
    /\ handlers = <<>>
    /\ speaks = <<>>
    /\ outbox = <<>>

InFlightInit ==
    /\ \E established \in BOOLEAN : TurnInFlight(established)
    /\ inputBudget = 3 + MaxInFlightInputs
    /\ VadIdle /\ PlaybackInit /\ CodecIdle /\ SchedulerIdle

InFlightSpec == InFlightInit /\ [][Next]_vars

\* The worklet alone: constructed with silenceFrames given (short runs of
\* any frames and port messages) or left out (the worked example).
VadInit ==
    \E option \in {0, SilenceFrames} :
        /\ VadConstructed(option)
        /\ vadInput = IF option = 0 THEN "example" ELSE "free"

VadNext ==
    \/ VadFrame /\ UNCHANGED <<vars, playbackVars, codecVars, schedVars>>
    \/ VadExampleFrame /\ UNCHANGED <<vars, playbackVars, codecVars, schedVars>>
    \/ VadPause /\ UNCHANGED <<vars, playbackVars, codecVars, schedVars>>
    \/ VadResume /\ UNCHANGED <<vars, playbackVars, codecVars, schedVars>>
    \/ VadForceEnd /\ UNCHANGED <<vars, playbackVars, codecVars, schedVars>>

VadSpecInit ==
    ServerInit /\ VadInit /\ PlaybackInit /\ CodecIdle /\ SchedulerIdle

VadSpec == VadSpecInit /\ [][VadNext]_vadVars

\* The popup's playback alone.  The popup posts no message to the worklet
\* (no pause, resume or forceEnd), so no step of it changes the worklet.
PlaybackNext ==
    \/ OnServerAudio /\ UNCHANGED <<vars, vadVars, codecVars, schedVars>>
    \/ (\E i \in 1..Len(sources) : OnEnded(i))
           /\ UNCHANGED <<vars, vadVars, codecVars, schedVars>>
    \/ OnSpeechStart /\ UNCHANGED <<vars, vadVars, codecVars, schedVars>>
    \/ OnSpeechEnd /\ UNCHANGED <<vars, vadVars, codecVars, schedVars>>
    \/ ForceResumeMicrophone /\ UNCHANGED <<vars, vadVars, codecVars, schedVars>>

PlaybackSpecInit ==
    ServerInit /\ VadIdle /\ PlaybackInit /\ CodecIdle /\ SchedulerIdle

PlaybackSpec == PlaybackSpecInit /\ [][PlaybackNext]_playbackVars

\* The sample conversions alone, each on an input drawn at the start.
CodecInit ==
    \/ /\ pcmData \in CodecBuffers
       /\ float32Data = <<>>
       /\ encoded = <<>>
       /\ resample = NoCall
    \/ /\ pcmData = <<>>
       /\ float32Data \in FloatBuffers
       /\ encoded = <<>>
       /\ resample = NoCall
    \/ /\ pcmData = <<>>
       /\ float32Data = <<>>
       /\ encoded = <<>>
       /\ resample \in [numBytes : 0..(2 * MaxSamples),
                        targetSampleRate : TargetSampleRates,
                        resampledLength : {-1}]

CodecNext ==
    \/ ConvertPCMToFloat32 /\ UNCHANGED <<vars, vadVars, playbackVars, schedVars>>
    \/ EncodeAudioData /\ UNCHANGED <<vars, vadVars, playbackVars, schedVars>>
    \/ Resample /\ UNCHANGED <<vars, vadVars, playbackVars, schedVars>>

CodecSpecInit ==
    ServerInit /\ VadIdle /\ PlaybackInit /\ CodecInit /\ SchedulerIdle

CodecSpec == CodecSpecInit /\ [][CodecNext]_codecVars

\* The scheduling playback alone.
SchedulerNext ==
    \/ (\E d \in 1..MaxDuration : PlayAudioBuffer(d))
           /\ UNCHANGED <<vars, vadVars, playbackVars, codecVars>>
    \/ ClockTick /\ UNCHANGED <<vars, vadVars, playbackVars, codecVars>>
    \/ StartRecording /\ UNCHANGED <<vars, vadVars, playbackVars, codecVars>>
    \/ StopRecording /\ UNCHANGED <<vars, vadVars, playbackVars, codecVars>>

SchedulerSpecInit ==
    ServerInit /\ VadIdle /\ PlaybackInit /\ CodecIdle /\ SchedulerIdle

SchedulerSpec == SchedulerSpecInit /\ [][SchedulerNext]_schedVars

\* ===================================================================== claims
TurnIds == 1..Len(turns)
HandlerIds == 1..Len(handlers)
SpeakIds == 1..Len(speaks)

\* The speakText calls made by handler h, and by the catch block of turn t.
SpeaksOfHandler(h) ==
    {k \in SpeakIds : speaks[k].caller = [kind |-> "handler", id |-> h]}
SpeaksOfTurn(t) ==
    {k \in SpeakIds : speaks[k].caller = [kind |-> "turn", id |-> t]}

\* The client has been sent a message of turn t.
Observed(t) == \E i \in 1..Len(outbox) : outbox[i].turn = t

ConsumedSeqs(t) ==
    {turns[t].chunks[i].seq : i \in 1..Len(turns[t].chunks)}
BufferedSeqs == {turnAudioBuffer[i].seq : i \in 1..Len(turnAudioBuffer)}

\* C1: at most one upstream dialogue session opened by end_of_utterance
\* handling is open at any time on the connection.
C1_AtMostOneDialogueSessionOpen ==
    Cardinality({t \in 1..Len(sessions) : sessions[t].state = "open"}) <= 1

\* C2: an end_of_utterance received while the utterance buffer is empty opens
\* no upstream session, sends nothing to the client and leaves the buffer,
\* the pending image and the session handle unchanged.
C2_EmptyEndOfUtteranceIgnored ==
    [][(OnEndOfUtterance /\ Len(turnAudioBuffer) = 0) =>
        UNCHANGED <<closed, turnAudioBuffer, turnImage, currentAudioSession,
                    turns, sessions, handlers, speaks, outbox>>]_vars

\* An end_of_utterance has been received on an empty buffer: more messages
\* were counted than audio, image, malformed, turn-starting and upstream
\* messages.
C2_Witness ==
    inputs > audioCount + imageCount + malformedCount + Len(turns)
             + Len(handlers)

\* C3: the audio submitted upstream is the base64 encoding of the byte-wise
\* concatenation of the decoded chunks, in arrival order.
C3_SubmittedIsBinaryConcatenation ==
    \A t \in 1..Len(sessions) :
        \A i \in 1..Len(sessions[t].audioIn) :
            sessions[t].audioIn[i] = btoa(BufferConcat(turns[t].chunks))

\* C4: the buffer is empty right after a non-empty end_of_utterance, and no
\* received chunk is part of two utterances nor stays buffered once consumed.
C4_ChunksInOneUtterance ==
    /\ \A t \in TurnIds : ConsumedSeqs(t) \cap BufferedSeqs = {}
    /\ \A t1, t2 \in TurnIds :
        t1 # t2 => ConsumedSeqs(t1) \cap ConsumedSeqs(t2) = {}

C4_UtteranceNotShared ==
    /\ [](C4_ChunksInOneUtterance)
    /\ [][(OnEndOfUtterance /\ Len(turnAudioBuffer) > 0) =>
            turnAudioBuffer' = <<>>]_vars

\* Two utterances have been consumed on the connection, one after the other.
C4_Witness ==
    /\ Len(turns) = 2
    /\ \A t \in TurnIds : Len(turns[t].chunks) > 0

C6_ClientEventuallyObserves ==
    \A t \in 1..MaxInputs :
        (Len(turns) >= t) ~> (closed \/ Observed(t))

\* C7: a tool-call request handled with no pending image makes exactly one
\* speakText call (the no-screenshot message) and no vision call, and the
\* handler ends when that call returns.
C7_NoImageFallback ==
    \A h \in HandlerIds :
        ( /\ handlers[h].resp.part = "tool_call"
          /\ handlers[h].pc # "queued"
          /\ handlers[h].seen = NullImage ) =>
            /\ handlers[h].vision = 0
            /\ handlers[h].vres = "none"
            /\ Cardinality(SpeaksOfHandler(h)) = 1
            /\ \A k \in SpeaksOfHandler(h) :
                /\ speaks[k].text = "msg_no_screenshot"
                /\ (speaks[k].pc = "returned") <=> (handlers[h].pc = "done")

\* A tool-call request without a pending image has been handled to its end.
C7_Witness ==
    \E h \in HandlerIds :
        /\ handlers[h].resp.part = "tool_call"
        /\ handlers[h].seen = NullImage
        /\ handlers[h].pc = "done"

\* C8: a tool-call request handled with a pending image makes exactly one
\* vision call, and once it has been handled the session's pending image is
\* no longer the image that was attached.
C8_PendingImageConsumed ==
    \A h \in HandlerIds :
        (handlers[h].vres = "ok" /\ handlers[h].pc = "done") =>
            /\ handlers[h].vision = 1
            /\ turnImage # handlers[h].seen

\* C9: when the vision call fails the apology is spoken by exactly one
\* speakText call, the pending image is cleared and the handler ends.
C9_VisionFailureClearsImage ==
    \A h \in HandlerIds :
        (handlers[h].vres = "fail" /\ handlers[h].pc = "done") =>
            /\ Cardinality(SpeaksOfHandler(h)) = 1
            /\ \A k \in SpeaksOfHandler(h) : speaks[k].text = "msg_apology"
            /\ turnImage # handlers[h].seen

\* C10: every text part that is not a tool-call request is spoken: a
\* speakText call is made with the text.
C10_NonToolTextSpoken ==
    \A h \in HandlerIds :
        ( /\ handlers[h].resp.part \in {"text_plain", "text_json_other"}
          /\ handlers[h].pc # "queued" ) =>
            \E k \in SpeaksOfHandler(h) : speaks[k].text = "model_text"

\* C11: once a message with turnComplete has been handled, turn_complete has
\* been forwarded to the client and the dialogue session of that turn is no
\* longer open.
C11_TurnCompleteClosesSession ==
    \A h \in HandlerIds :
        (handlers[h].resp.turnComplete /\ handlers[h].pc = "done") =>
            /\ closed \/ \E i \in 1..Len(outbox) :
                   /\ outbox[i].type = "turn_complete"
                   /\ outbox[i].via = "model"
                   /\ outbox[i].ref = h
            /\ sessions[handlers[h].turn].state # "open"

\* C12: a malformed inbound message is dropped: the connection stays open,
\* nothing is sent to the client, no upstream session is opened, and the
\* utterance buffer, pending image and session handle are unchanged.
C12_MalformedDropped ==
    [][malformedCount' # malformedCount =>
        UNCHANGED <<audioCount, imageCount, closed, turnAudioBuffer,
                    turnImage, currentAudioSession, turns, sessions,
                    handlers, speaks, outbox>>]_vars

\* A malformed message has arrived while an utterance was being assembled
\* with a screenshot pending.
C12_Witness ==
    /\ malformedCount > 0
    /\ Len(turnAudioBuffer) > 0
    /\ turnImage # NullImage

\* C13: once the client connection has closed, no upstream session of the
\* connection (dialogue or text-to-speech) is open.
C13_NoUpstreamSessionAfterClose ==
    closed =>
        /\ \A t \in 1..Len(sessions) : sessions[t].state # "open"
        /\ \A k \in SpeakIds : speaks[k].state # "open"

\* ---- the port log of the worklet, as the claims read it
PortIds == 1..Len(port)

\* Entry i is a frame that was processed while the worklet was not paused.
Processed(i) == port[i].event = "frame" /\ ~port[i].paused

\* The RMS of frame i is above the threshold.
Loud(i) == port[i].rms > SpeechThreshold

\* Handling entry i posted the message m.
Posted(i, m) ==
    \E j \in 1..Len(port[i].posted) : port[i].posted[j] = m

\* No forceEnd message lies between the entries j and i.
NoForceEndBetween(j, i) ==
    \A k \in (j + 1)..(i - 1) : port[k].event # "forceEnd"

\* Frame i continues a run of above-threshold frames: the processed frame
\* before it was above the threshold too.
ContinuesRun(i) ==
    \E j \in 1..(i - 1) :
        /\ Processed(j) /\ Loud(j)
        /\ \A k \in (j + 1)..(i - 1) : ~Processed(k)
        /\ NoForceEndBetween(j, i)

\* Frame i is the n-th processed frame in a row at or below the threshold
\* since the last frame above it.
SilentFor(i, n) ==
    \E l \in 1..(i - 1) :
        /\ Processed(l) /\ Loud(l)
        /\ \A k \in (l + 1)..i : Processed(k) => ~Loud(k)
        /\ NoForceEndBetween(l, i)
        /\ Cardinality({k \in (l + 1)..i : Processed(k)}) = n

\* C14: while not paused, speechStart is posted exactly at the first frame
\* of each run of above-threshold frames that begins while the state is
\* Idle; above-threshold frames met while Speaking, frames at or below the
\* threshold, dropped frames and port messages post no speechStart.
\* A run is a sequence of consecutive processed frames above the threshold
\* with no forceEnd message between them.
C14_SpeechStartOncePerRun ==
    \A i \in PortIds :
        Posted(i, "speechStart") <=>
            /\ Processed(i) /\ Loud(i)
            /\ ~ContinuesRun(i)
            /\ ~port[i].speaking

\* Two utterances have started, and a run of above-threshold frames has
\* begun while the worklet was already Speaking.
C14_Witness ==
    /\ \E i, j \in PortIds :
        i < j /\ Posted(i, "speechStart") /\ Posted(j, "speechStart")
    /\ \E i \in PortIds :
        Processed(i) /\ Loud(i) /\ port[i].speaking /\ ~ContinuesRun(i)

\* C15: while not paused, a frame posts speechEnd exactly when it is the
\* requiredSilenceFrames-th frame in a row at or below the threshold since
\* the last frame above it (so once per utterance, a frame above the
\* threshold starting the count again); with 188 required frames, frames
\* 0..99 loud and the rest silent, speechStart is posted at frame 0 and
\* speechEnd at frame 287, once each.
C15_SpeechEndAfterRequiredSilence ==
    /\ \A i \in PortIds :
        port[i].event = "frame" =>
            (Posted(i, "speechEnd") <=>
                Processed(i) /\ SilentFor(i, requiredSilenceFrames))
    /\ vadInput = "example" =>
        /\ requiredSilenceFrames = 188
        /\ \A i \in PortIds :
            /\ Posted(i, "speechStart") <=> i = 0 + 1
            /\ Posted(i, "speechEnd") <=> i = 287 + 1

\* The worked example has run past the end of its utterance.
C15_Witness ==
    /\ vadInput = "example"
    /\ Len(port) > 288
    /\ Posted(288, "speechEnd")

\* ---- the popup's playback, as the claims read it
QueuedChunks == {audioQueue[j] : j \in 1..Len(audioQueue)}
StartedChunks == {sources[i].chunk : i \in 1..Len(sources)}

\* C16: chunks are rendered in the order they arrived: the sources started
\* are in arrival order without repetition, the queue is in arrival order,
\* and every queued chunk arrived after every chunk already started.
C16_RenderedInArrivalOrder ==
    /\ \A i, j \in 1..Len(sources) :
        i < j => sources[i].chunk < sources[j].chunk
    /\ \A i, j \in 1..Len(audioQueue) :
        i < j => audioQueue[i] < audioQueue[j]
    /\ \A c \in StartedChunks : \A q \in QueuedChunks : c < q

\* Two chunks have been started while a third is waiting in the queue.
C16_Witness ==
    /\ Len(sources) >= 2
    /\ Len(audioQueue) >= 1

\* C17: after a barge-in (speechStart while playback is active) the chunks
\* that were queued at that moment are no longer queued and are never
\* rendered.
C17_BargeInClearsQueue ==
    \A c \in barge.queued : c \notin QueuedChunks /\ c \notin StartedChunks

\* C18: after a barge-in only chunks that arrived after it are being
\* rendered: the chunk in flight at the barge-in has been stopped.
C18_BargeInStopsChunkInFlight ==
    barge.seen =>
        \A i \in 1..Len(sources) :
            sources[i].state = "playing" => sources[i].chunk > barge.at

\* C19: encoding the decoded samples of a buffer returns the buffer.
C19_CodecRoundTrip ==
    (pcmData # <<>> /\ encoded # <<>>) => encoded = pcmData

\* A buffer holding the lowest sample value has gone through both
\* conversions.
C19_Witness ==
    /\ encoded # <<>>
    /\ \E i \in 1..Len(pcmData) : pcmData[i] = -32768

C21_EstablishmentFailureSpoken ==
    /\ \A t \in TurnIds :
        turns[t].thrown # <<>> =>
            /\ Cardinality(SpeaksOfTurn(t)) = 1
            /\ \A k \in SpeaksOfTurn(t) :
                LET words == turns[t].thrown[1] IN
                speaks[k].text =
                    IF "timeout" \in words THEN "msg_timeout"
                    ELSE IF "quota" \in words \/ "rate" \in words
                    THEN "msg_busy"
                    ELSE IF "model" \in words THEN "msg_model"
                    ELSE "msg_generic"
    /\ \A t \in TurnIds :
        (sessions[t].state = "failed" \/ turns[t].pc = "speak") =>
            turns[t].thrown # <<>>
    /\ \A i \in 1..Len(outbox) : outbox[i].type \in {"audio", "turn_complete"}

\* One establishment has timed out and another has failed with a message
\* that names both the quota and the model.
C21_Witness ==
    /\ \E t \in TurnIds : turns[t].thrown = <<{"timeout"}>>
    /\ \E t \in TurnIds :
        /\ turns[t].thrown = <<{"quota", "model"}>>
        /\ sessions[t].state = "failed"

\* C22: once the utterance of a turn has been submitted, either the dialogue
\* model responds to it or a spoken diagnostic is synthesized for the turn
\* (or the client has gone): the turn is not left waiting for ever.
C22_NoResponseIsSpoken ==
    \A t \in 1..MaxInputs :
        (Len(turns) >= t /\ Len(sessions[t].audioIn) > 0) ~>
            \/ closed
            \/ \E h \in HandlerIds : handlers[h].turn = t
            \/ \E k \in SpeakIds : speaks[k].turn = t

\* C23: a failure inside speakText (connect rejects, the TTS session is
\* closed or in error before it is open, or sending the text rejects) makes
\* speakText return normally: its caller goes on to its end, the client
\* connection stays open, nothing is sent to the client, and the utterance
\* buffer, the pending image and the session handle are unchanged.
C23_TtsFailureOnlyLogged ==
    [][\A k \in SpeakIds :
        ( /\ speaks[k].pc # "returned"
          /\ speaks'[k].pc = "returned"
          /\ ~speaks'[k].sent ) =>
            /\ UNCHANGED <<closed, turnAudioBuffer, turnImage,
                           currentAudioSession, sessions, outbox>>
            /\ LET c == speaks[k].caller IN
               IF c.kind = "turn"
               THEN turns'[c.id].pc = "done"
               ELSE handlers'[c.id].pc = "done"]_vars

\* speakText has failed on a TTS session that did not open, and again on a
\* rejected connect, and the client connection is open.
C23_Witness ==
    /\ \E k \in SpeakIds :
        /\ speaks[k].pc = "returned" /\ ~speaks[k].sent
        /\ speaks[k].state \in {"closed", "error"}
    /\ \E k \in SpeakIds :
        speaks[k].pc = "returned" /\ speaks[k].state = "failed"
    /\ ~closed

\* C24: an image that arrives while a turn is in flight is not the image
\* attached to a vision request of that turn: the image the first response
\* handler of a turn attaches is the one that was pending at the turn's
\* end_of_utterance (images are numbered in arrival order).
C24_ImageInFlightHeldForNextTurn ==
    \A h \in HandlerIds :
        ( /\ handlers[h].vision > 0
          /\ \A j \in 1..(h - 1) : handlers[j].turn # handlers[h].turn ) =>
            handlers[h].seen = turns[handlers[h].turn].pending

\* C25: in every state with the connection open, whatever a turn in flight
\* is waiting for, an audio message is accepted and appends exactly one
\* chunk to the end of the utterance buffer, an image message is accepted
\* and replaces the pending image, and neither changes anything else: no
\* upstream session is opened and nothing is sent to the client.
C25_BufferedInEveryState ==
    /\ [](~closed /\ inputs < inputBudget =>
            /\ ENABLED (OnAudio /\ UNCHANGED frozenVars)
            /\ ENABLED (OnImage /\ UNCHANGED frozenVars))
    /\ [][ /\ audioCount' # audioCount =>
               /\ Len(turnAudioBuffer') = Len(turnAudioBuffer) + 1
               /\ SubSeq(turnAudioBuffer', 1, Len(turnAudioBuffer))
                      = turnAudioBuffer
               /\ turnAudioBuffer'[Len(turnAudioBuffer')].seq = audioCount'
               /\ UNCHANGED <<imageCount, closed, turnImage,
                              currentAudioSession, turns, sessions, handlers,
                              speaks, outbox>>
           /\ imageCount' # imageCount =>
               /\ turnImage' = imageCount'
               /\ UNCHANGED <<audioCount, closed, turnAudioBuffer,
                              currentAudioSession, turns, sessions, handlers,
                              speaks, outbox>> ]_vars

\* A screenshot has replaced the pending one while a response handler was
\* waiting for the vision service with the earlier one.
C25_Witness ==
    \E h \in HandlerIds :
        /\ handlers[h].pc = "vision"
        /\ handlers[h].seen # NullImage
        /\ turnImage > handlers[h].seen

\* C26: a frame given to the worklet while it is paused is dropped: it
\* posts nothing (no speechStart, no speechEnd, no audioData) and leaves
\* isSpeaking and the silence counter as they are; so an utterance that was
\* open at the pause is still open at the resume, with the count it had.
C26_PausedFramesDropped ==
    [][( /\ Len(port') = Len(port) + 1
         /\ port'[Len(port')].event = "frame"
         /\ isPaused ) =>
            /\ port'[Len(port')].posted = <<>>
            /\ UNCHANGED <<isSpeaking, silentFrameCount, isPaused>>]_vadVars

\* The worklet was paused while Speaking with one silent frame counted, a
\* frame was dropped, and after the resume the remaining silent frame ended
\* the utterance.
C26_Witness ==
    \E i, j \in PortIds :
        /\ i < j
        /\ port[i].event = "frame" /\ port[i].paused /\ port[i].speaking
        /\ ~Loud(i)
        /\ \E l \in 1..(i - 1) : Processed(l) /\ ~Loud(l) /\ port[l].speaking
        /\ port[j].event = "frame" /\ Posted(j, "speechEnd")

\* C27: a frame processed while not paused is forwarded (audioData) exactly
\* when its RMS is above the threshold or the worklet is Speaking when the
\* frame arrives; a silent frame met in Idle posts nothing; so every processed
\* frame from the one that posts speechStart through the one that posts the
\* speechEnd of that utterance is forwarded, speechStart before the first
\* payload and speechEnd after the last.
C27_ForwardedWhenLoudOrSpeaking ==
    /\ \A i \in PortIds :
        /\ Posted(i, "audioData") <=>
               Processed(i) /\ (Loud(i) \/ port[i].speaking)
        /\ (Processed(i) /\ ~Loud(i) /\ ~port[i].speaking) =>
               port[i].posted = <<>>
        /\ Posted(i, "speechStart") =>
               port[i].posted = <<"speechStart", "audioData">>
        /\ (port[i].event = "frame" /\ Posted(i, "speechEnd")) =>
               port[i].posted = <<"audioData", "speechEnd">>
    /\ \A i, j \in PortIds :
        ( /\ i < j
          /\ Posted(i, "speechStart")
          /\ port[j].event = "frame" /\ Posted(j, "speechEnd")
          /\ \A k \in (i + 1)..(j - 1) : ~Posted(k, "speechEnd") ) =>
            \A k \in i..j : Processed(k) => Posted(k, "audioData")

\* An utterance of at least five processed frames has run from its
\* speechStart to its speechEnd, and a silent frame has been met in Idle.
C27_Witness ==
    /\ \E i, j \in PortIds :
        /\ i + 4 <= j
        /\ Posted(i, "speechStart")
        /\ port[j].event = "frame" /\ Posted(j, "speechEnd")
        /\ \A k \in i..j : Processed(k)
        /\ \A k \in (i + 1)..(j - 1) : ~Posted(k, "speechEnd")
    /\ \E i \in PortIds : Processed(i) /\ ~Loud(i) /\ ~port[i].speaking

\* C28: while the popup is playing the tutor's audio the worklet's isPaused
\* flag is set, and it is clear again once nothing is being played.
C28_PausedWhilePlaying ==
    /\ isPlaying => isPaused
    /\ (\A i \in 1..Len(sources) : sources[i].state # "playing") => ~isPaused

\* C29: once a turn has submitted its utterance, the real-time inputs sent
\* to its dialogue session are two, in this order: the concatenated
\* utterance as one audio input, then the end-of-input marker.
C29_AudioThenEndOfInput ==
    \A t \in TurnIds :
        (turns[t].pc = "done" /\ turns[t].thrown = <<>>) =>
            /\ Len(sessions[t].audioIn) = 2
            /\ sessions[t].audioIn[1] = turns[t].data
            /\ sessions[t].audioIn[2] # turns[t].data

\* C30: once a response with an inline-audio part has been handled, that
\* audio has been forwarded to the client as an audio message (unless the
\* client has gone), whether the audio part is the first part or a later
\* one, and also when the first part is text.
C30_InlineAudioForwarded ==
    \A h \in HandlerIds :
        ( /\ handlers[h].pc = "done"
          /\ "audio" \in {handlers[h].resp.part, handlers[h].resp.rest} ) =>
            \/ closed
            \/ \E i \in 1..Len(outbox) :
                   /\ outbox[i].type = "audio"
                   /\ outbox[i].via = "model"
                   /\ outbox[i].ref = h

\* C31: the wait of speakText for its TTS session is bounded: a call that
\* has started to poll the session's state eventually returns, whatever the
\* session does.
C31_TtsWaitBounded ==
    \A k \in 1..(2 * MaxInputs) :
        (Len(speaks) >= k /\ speaks[k].pc = "poll") ~>
            (Len(speaks) >= k /\ speaks[k].pc = "returned")

\* The messages of the given type that speakText call k has sent the client.
TtsOutbox(k, type) ==
    {i \in 1..Len(outbox) :
        outbox[i].via = "tts" /\ outbox[i].ref = k /\ outbox[i].type = type}

\* C32: the text of a TTS call is submitted only by a call that has gone
\* through its wait; every inline-audio part its session has emitted has
\* been forwarded to the client as an audio message (unless the client has
\* gone); and a session whose turn has completed is not open.
C32_TtsAudioForwardedAndClosed ==
    \A k \in SpeakIds :
        /\ speaks[k].sent => speaks[k].pc = "returned"
        /\ closed \/ Cardinality(TtsOutbox(k, "audio")) = speaks[k].emitted
        /\ TtsOutbox(k, "turn_complete") # {} => speaks[k].state # "open"

\* ---- the scheduled playback, as the claims read it
ScheduledIds == 1..Len(scheduled)

\* The time at which the chunk before chunk i ends.
PreviousEnd(i) ==
    IF i = 1 THEN 0 ELSE scheduled[i - 1].start + scheduled[i - 1].duration

\* C33: each chunk is scheduled at max(now, end of the previous chunk), the
\* next-play time is the start of the latest chunk plus its duration, and
\* no two scheduled chunks overlap in time.
C33_ScheduledBackToBack ==
    /\ \A i \in ScheduledIds :
        scheduled[i].start =
            IF scheduled[i].now > PreviousEnd(i)
            THEN scheduled[i].now ELSE PreviousEnd(i)
    /\ scheduled # <<>> =>
        nextPlayTime = scheduled[Len(scheduled)].start
                       + scheduled[Len(scheduled)].duration
    /\ \A i, j \in ScheduledIds :
        i < j => scheduled[i].start + scheduled[i].duration
                     <= scheduled[j].start

\* ---- the playback chain, step by step
\* The step started a source for chunk c, after the sources there were.
StartsChunk(c) ==
    /\ Len(sources') = Len(sources) + 1
    /\ sources'[Len(sources')] = [chunk |-> c, state |-> "playing"]

\* The step is the onended callback of some source.
EndsChunk ==
    \E i \in 1..Len(sources) :
        sources[i].state = "playing" /\ sources'[i].state = "ended"

\* The step is a stopAllPlayback() met with chunks in the queue.
ClearsQueue ==
    audioQueue # <<>> /\ audioQueue' = <<>> /\ sources' = sources

C34_ChainStep ==
    /\ (arrived' # arrived /\ ~isPlaying) =>
           \/ UNCHANGED <<audioQueue, isPlaying, sources>>
           \/ isPlaying' /\ StartsChunk(arrived') /\ audioQueue' = audioQueue
    /\ (EndsChunk /\ audioQueue # <<>>) =>
           /\ StartsChunk(Head(audioQueue))
           /\ audioQueue' = Tail(audioQueue)
           /\ isPlaying'
    /\ (EndsChunk /\ audioQueue = <<>>) =>
           /\ ~isPlaying' /\ ~isTutorSpeaking' /\ ~isAiCurrentlySpeaking'
           /\ audioQueue' = <<>>
           /\ Len(sources') = Len(sources)
    /\ ~ClearsQueue =>
           QueuedChunks \subseteq (QueuedChunks' \cup StartedChunks')

\* C34: a chunk enqueued while nothing plays is started; the end of a
\* chunk starts the next queued chunk, or on an empty queue clears the
\* playing flag and the tutor-speaking flags; no step other than a
\* stopAllPlayback loses a queued chunk; and in every state a non-empty
\* queue has the playing flag set and a source whose end will continue
\* the chain.
C34_PlaybackChain ==
    /\ [](Len(audioQueue) > 0 => isPlaying)
    /\ [](isPlaying =>
             \E i \in 1..Len(sources) : sources[i].state = "playing")
    /\ [][C34_ChainStep]_playbackVars

\* Three chunks arrived, the later two were queued behind the first, each
\* was started by the end of the one before it, and the end of the last
\* cleared the flags.
C34_Witness ==
    /\ Len(sources) = 3
    /\ \A i \in 1..3 : sources[i] = [chunk |-> i, state |-> "ended"]
    /\ audioQueue = <<>>
    /\ ~isPlaying /\ ~isTutorSpeaking /\ ~isAiCurrentlySpeaking

\* ---- the encoder, as the claims read it
AtLeastOne(f) == IF f.den = 0 THEN f.num > 0 ELSE f.num >= f.den
AtMostMinusOne(f) == IF f.den = 0 THEN f.num < 0 ELSE f.num <= -f.den
IsNumber(f) == f.den # 0
NotAbove(f, g) == f.num * g.den <= g.num * f.den

\* C35: an encoded buffer has one 16-bit value for each sample; a sample of
\* 1.0 or more is encoded as 32767 and a sample of -1.0 or less as -32768;
\* and the encoding keeps the order of the samples (no wrap-around).
C35_EncodeSaturates ==
    encoded # <<>> =>
        /\ Len(encoded) = Len(float32Data)
        /\ \A i \in 1..Len(encoded) :
            /\ encoded[i] \in Int16Values
            /\ AtLeastOne(float32Data[i]) => encoded[i] = 32767
            /\ AtMostMinusOne(float32Data[i]) => encoded[i] = -32768
        /\ \A i, j \in 1..Len(encoded) :
            (/\ IsNumber(float32Data[i])
             /\ IsNumber(float32Data[j])
             /\ NotAbove(float32Data[i], float32Data[j]))
                => encoded[i] <= encoded[j]

\* A microphone buffer holding a sample above 1.0 and a sample below -1.0
\* has been encoded.
C35_Witness ==
    /\ pcmData = <<>>
    /\ Len(encoded) = 2
    /\ float32Data[1].den # 0 /\ float32Data[1].num > float32Data[1].den
    /\ float32Data[2].den # 0 /\ float32Data[2].num < -float32Data[2].den

\* C36: speechStart is posted only from Idle and speechEnd only from
\* Speaking, a forceEnd met in Idle posts nothing, between two speechStart
\* lies a speechEnd and between two speechEnd a speechStart, the first of
\* them is a speechStart, and the silence counter is 0 whenever the state
\* is Idle.
C36_StartEndAlternate ==
    /\ \A i \in PortIds :
        /\ Posted(i, "speechStart") => ~port[i].speaking
        /\ Posted(i, "speechEnd") => port[i].speaking
        /\ (port[i].event = "forceEnd" /\ ~port[i].speaking) =>
               port[i].posted = <<>>
        /\ Posted(i, "speechEnd") =>
               \E h \in 1..(i - 1) : Posted(h, "speechStart")
    /\ \A i, j \in PortIds :
        /\ (i < j /\ Posted(i, "speechStart") /\ Posted(j, "speechStart")) =>
               \E k \in (i + 1)..(j - 1) : Posted(k, "speechEnd")
        /\ (i < j /\ Posted(i, "speechEnd") /\ Posted(j, "speechEnd")) =>
               \E k \in (i + 1)..(j - 1) : Posted(k, "speechStart")
    /\ ~isSpeaking => silentFrameCount = 0

\* An utterance was ended by a forceEnd handled while paused, a second
\* forceEnd met Idle and posted nothing, and after the resume a frame
\* started the next utterance.
C36_Witness ==
    \E i, j, k \in PortIds :
        /\ i < j /\ j < k
        /\ port[i].event = "forceEnd" /\ port[i].paused
        /\ Posted(i, "speechEnd")
        /\ port[j].event = "forceEnd" /\ port[j].posted = <<>>
        /\ Posted(k, "speechStart")

\* The sources being rendered.
PlayingSources == {i \in 1..Len(sources) : sources[i].state = "playing"}

\* C37: at most one chunk is being rendered at any time.
C37_OneSourcePlaying ==
    Cardinality(PlayingSources) <= 1

\* ---- the messages of one turn, as the client receives them
OutboxOfTurn(t, type) ==
    {i \in 1..Len(outbox) : outbox[i].turn = t /\ outbox[i].type = type}

\* The responses of the dialogue session of turn t that report turnComplete.
UpstreamTurnCompletes(t) ==
    {h \in HandlerIds : handlers[h].turn = t /\ handlers[h].resp.turnComplete}

\* The dialogue session of turn t reported turnComplete at most once, and
\* in its last response.
UpstreamEndsOnce(t) ==
    /\ Cardinality(UpstreamTurnCompletes(t)) <= 1
    /\ \A h \in UpstreamTurnCompletes(t) :
        \A g \in HandlerIds : handlers[g].turn = t => g <= h

\* C38: for a turn whose dialogue session reported turnComplete at most
\* once and in its last response, the client is sent at most one
\* turn_complete, and no audio message of the turn after it.
C38_OneTurnCompleteThenSilence ==
    \A t \in TurnIds :
        UpstreamEndsOnce(t) =>
            /\ Cardinality(OutboxOfTurn(t, "turn_complete")) <= 1
            /\ \A i \in OutboxOfTurn(t, "turn_complete") :
                   \A j \in OutboxOfTurn(t, "audio") : j < i

\* C39: a dialogue session that is open once the client has disconnected
\* (the last event on which the server closes a session) is closed later.
C39_EstablishedSessionClosed ==
    \A t \in 1..MaxInputs :
        (closed /\ Len(sessions) >= t /\ sessions[t].state = "open") ~>
            (Len(sessions) >= t /\ sessions[t].state # "open")

\* The audio messages in the outbox that forward a response of the dialogue
\* session of turn t; ref is the position of the response among those the
\* upstream delivered.
ModelAudioOfTurn(t) ==
    {i \in 1..Len(outbox) :
        outbox[i].turn = t /\ outbox[i].type = "audio"
            /\ outbox[i].via = "model"}

\* C40: the inline-audio responses of one turn's dialogue session are
\* forwarded in the order the upstream delivered them, each once.
C40_AudioForwardedInDeliveryOrder ==
    \A t \in TurnIds :
        \A i, j \in ModelAudioOfTurn(t) :
            i < j => outbox[i].ref < outbox[j].ref

\* Two inline-audio responses of one turn have been forwarded.
C40_Witness ==
    \E t \in TurnIds : Cardinality(ModelAudioOfTurn(t)) >= 2

====
